---- MODULE Spec2Model ----
(***************************************************************************)
(* Model of the brain-CT report generator: the series pipeline of          *)
(* ReportGenerator (report_generator.py), the inference engine             *)
(* MonaiService (monai_service.py), the report composer LLMService         *)
(* (llm_service.py), the decoder and normalizer DicomParserService         *)
(* (dicom_parser.py) and the upload route (routes.py).                     *)
(*                                                                         *)
(* Scores are integers in percent (0.85 is 85).  A text is a sequence of   *)
(* tokens: "NL" and "SP" are whitespace, "COLON" is ':', the members of    *)
(* Words are maximal runs of word characters, every other token is a run   *)
(* of text that holds no newline and no colon and is not a single word.    *)
(***************************************************************************)
EXTENDS Integers, Sequences, FiniteSets, TLC

VARIABLES
    \* ---- the request handled by ReportGenerator ----
    dicom_files,          \* the submitted files (their decode behaviour)
    batch_size,           \* settings.monai_batch_size
    entry,                \* the entry point that was called
    pc,                   \* position of the request handler
    pending,              \* indexes whose future has not completed
    order,                \* indexes in the order as_completed yielded them
    results,              \* the results list of _process_files_parallel
    preprocessed_data,    \* ordered tensors
    all_metadata,         \* ordered metadata
    batch_idx,            \* loop variable of the batch loop
    diagnoses,            \* concatenated batch results
    aggregated_diagnosis, \* result of _aggregate_diagnoses
    result,               \* the dictionary returned to the caller
    error,                \* exception type that left the entry point
    cause,                \* exception type first raised inside the handler
    calls,                \* number of calls made to each collaborator
    \* ---- MonaiService ----
    MONAI_AVAILABLE,      \* module flag set by the optional import
    model,                \* self.model: "none" or "loaded"
    image_tensors,        \* tensors handed to the engine
    single_out,           \* outcomes of run_inference on each tensor
    batch_out,            \* outcome of run_inference_batch on the list
    \* ---- LLMService ----
    initialized,          \* self.initialized
    use_mock,             \* self._use_mock
    llm_in,               \* diagnosis and backend behaviour of the last call
    llm_out,              \* outcome of the last composer call
    \* ---- DicomParserService ----
    raw_bytes,            \* the bytes handed to parse_dicom_file
    parsed,               \* outcome of parse_dicom_file
    pixel_array,          \* the pixel array handed to normalize_image
    normalized,           \* normalize_image(pixel_array), once and twice
    \* ---- the upload route ----
    uploads,              \* the uploaded files of one request
    dicom_bytes_list,     \* the candidates collected from the uploads
    http_response         \* what the route answered

pipeVars == <<dicom_files, batch_size, entry, pc, pending, order, results,
              preprocessed_data, all_metadata, batch_idx, diagnoses,
              aggregated_diagnosis, result, error, cause, calls>>
monaiVars == <<MONAI_AVAILABLE, model, image_tensors, single_out, batch_out>>
llmVars == <<initialized, use_mock, llm_in, llm_out>>
frontVars == <<raw_bytes, parsed, pixel_array, normalized, uploads,
               dicom_bytes_list, http_response>>
vars == <<pipeVars, monaiVars, llmVars, frontVars>>

----------------------------------------------------------------------------
(* Bounds of the model *)

MaxFiles == 3
MaxWorkers == 2
MaxBatch == 2
MaxDiag == 3
MaxTensors == 2
MaxLabels == 2
MaxPixels == 3
MaxPixel == 2
HighPixel == 20000
FloatSteps == 64
MaxUploads == 2
MaxMembers == 2

----------------------------------------------------------------------------
(* Generic helpers *)

Range(s) == {s[i] : i \in 1..Len(s)}

RECURSIVE SeqsUpTo(_, _)
SeqsUpTo(S, n) ==
    IF n = 0 THEN {<<>>}
    ELSE LET shorter == SeqsUpTo(S, n - 1)
         IN  shorter \cup {Append(s, x) : s \in {t \in shorter : Len(t) = n - 1}, x \in S}

Min(a, b) == IF a < b THEN a ELSE b

RECURSIVE Gcd(_, _)
Gcd(a, b) == IF b = 0 THEN a ELSE Gcd(b, a % b)

\* exact quotient a / b of two naturals, b > 0, as a reduced fraction
Quot(a, b) ==
    LET g == Gcd(a, b)
    IN  IF g = 0 THEN [num |-> 0, den |-> 1]
        ELSE [num |-> a \div g, den |-> b \div g]

RatEq(q, a, b) == q.num * b = a * q.den
----------------------------------------------------------------------------
(* MonaiService: tensors, preprocessing and inference                      *)
(*                                                                         *)
(* An image is [shape, px]: px is, per pixel, the abnormal-class           *)
(* probability (percent) that the loaded network assigns to that image.    *)
(* A tensor is [shape, data]: data is the sequence, over the leading       *)
(* dimension, of what lies below it.                                       *)

Labels == {"normal", "abnormal"}

NoneTensor == [shape |-> <<>>, data |-> <<>>]

RECURSIVE SumSeq(_)
SumSeq(s) == IF s = <<>> THEN 0 ELSE Head(s) + SumSeq(Tail(s))

RECURSIVE MaxSeq(_)
MaxSeq(s) ==
    IF Len(s) = 1 THEN Head(s)
    ELSE LET m == MaxSeq(Tail(s)) IN IF Head(s) > m THEN Head(s) ELSE m

RECURSIVE Flatten(_)
Flatten(ss) == IF ss = <<>> THEN <<>> ELSE Head(ss) \o Flatten(Tail(ss))

Mean(s) == SumSeq(s) \div Len(s)

Ok(v) == [raised |-> FALSE, err |-> "none", val |-> v]
Raise(e, v) == [raised |-> TRUE, err |-> e, val |-> v]

\* Compose([EnsureChannelFirst("no_channel"), Resize((256, 256)), ...])
preprocess_transform(shape) ==
    LET withChannel == <<1>> \o shape
    IN  IF Len(withChannel) = 3 THEN Ok(<<1, 256, 256>>)
        ELSE Raise("ValueError", <<>>)

preprocess_image(avail, image) ==
    IF ~avail THEN Ok(NoneTensor)
    ELSE LET squeezed == IF Len(image.shape) = 3 /\ image.shape[1] = 1
                         THEN Tail(image.shape) ELSE image.shape
             t == preprocess_transform(squeezed)
         IN  IF t.raised THEN Raise(t.err, NoneTensor)
             ELSE Ok([shape |-> <<1>> \o t.val, data |-> <<image.px>>])

\* torch.stack: a new leading dimension over tensors of one shape
torch_stack(ts) ==
    IF \E i \in 1..Len(ts) : ts[i].shape # ts[1].shape
    THEN Raise("RuntimeError", NoneTensor)
    ELSE Ok([shape |-> <<Len(ts)>> \o ts[1].shape,
             data |-> [i \in 1..Len(ts) |-> ts[i].data]])

\* the 2-D UNet with in_channels = 1 and out_channels = 2: a batched input
\* has rank 4; the value is softmax(output, dim = 1), class 1 per pixel
model_forward(x) ==
    IF Len(x.shape) = 4 /\ x.shape[2] = 1
    THEN Ok([shape |-> <<x.shape[1], 2, x.shape[3], x.shape[4]>>,
             data |-> x.data])
    ELSE Raise("RuntimeError", NoneTensor)

\* t[i:i+1] along the leading dimension
SliceAt(t, i) == [shape |-> <<1>> \o Tail(t.shape), data |-> <<t.data[i]>>]

\* torch.argmax(probabilities, dim = 1): the first maximal class
predicted_class(prob) ==
    [i \in 1..Len(prob.data) |->
        [k \in 1..Len(prob.data[i]) |->
            IF prob.data[i][k] > 100 - prob.data[i][k] THEN 1 ELSE 0]]

\* the name of every class that some pixel is predicted to be
EveryPredictedClass(predicted, prob) ==
    LET unique_classes == UNION {Range(predicted[i]) : i \in 1..Len(predicted)}
    IN  (IF 0 \in unique_classes THEN <<"normal">> ELSE <<>>)
        \o (IF 1 \in unique_classes THEN <<"abnormal">> ELSE <<>>)

_extract_abnormalities(predicted, prob) ==
    LET unique_classes == UNION {Range(predicted[i]) : i \in 1..Len(predicted)}
        abnormalities ==
            IF 1 \in unique_classes /\ MaxSeq(prob.data[1]) > 50
            THEN <<"abnormal">> ELSE <<>>
    IN  IF abnormalities # <<>> THEN abnormalities ELSE <<"normal">>

_calculate_confidence_scores(prob) ==
    ("normal" :> Mean([k \in 1..Len(prob.data[1]) |-> 100 - prob.data[1][k]]))
    @@ ("abnormal" :> Mean(prob.data[1]))

_extract_findings(prob) ==
    LET all == Flatten(prob.data)
        both == all \o [k \in 1..Len(all) |-> 100 - all[k]]
    IN  [mock_diagnosis |-> FALSE,
         max_probability |-> MaxSeq(both),
         mean_probability |-> Mean(both),
         output_shape |-> prob.shape]

_get_mock_diagnosis ==
    [abnormalities |-> <<"normal">>,
     confidence_scores |-> ("normal" :> 85) @@ ("abnormal" :> 15),
     findings |-> [mock_diagnosis |-> TRUE, max_probability |-> 0,
                   mean_probability |-> 0, output_shape |-> <<>>]]

DiagnosisOf(prob) ==
    [abnormalities |-> _extract_abnormalities(predicted_class(prob), prob),
     confidence_scores |-> _calculate_confidence_scores(prob),
     findings |-> _extract_findings(prob)]

run_inference(avail, mdl, image_tensor) ==
    IF ~avail \/ mdl = "none" \/ image_tensor = NoneTensor
    THEN Ok(_get_mock_diagnosis)
    ELSE LET prob == model_forward(image_tensor)
         IN  IF prob.raised THEN Raise(prob.err, _get_mock_diagnosis)
             ELSE Ok(DiagnosisOf(prob.val))

\* a batch call that refuses to run without a loaded model
StrictInferenceBatch(avail, mdl, ts) ==
    IF ~avail \/ mdl = "none" THEN Raise("ModelLoadError", <<>>)
    ELSE Ok([i \in 1..Len(ts) |-> run_inference(avail, mdl, ts[i]).val])

run_inference_batch(avail, mdl, ts) ==
    IF ~avail \/ mdl = "none"
    THEN Ok([i \in 1..Len(ts) |-> _get_mock_diagnosis])
    ELSE IF ts = <<>> THEN Ok(<<>>)
    ELSE LET batch == torch_stack(ts)
             prob == model_forward(batch.val)
         IN  IF batch.raised THEN Raise(batch.err, <<>>)
             ELSE IF prob.raised THEN Raise(prob.err, <<>>)
             ELSE Ok([i \in 1..Len(ts) |-> DiagnosisOf(SliceAt(prob.val, i))])

\* load_model: self.model is assigned only when every step succeeded
load_model(avail, mdl, loads) ==
    IF ~avail THEN Raise("ModelLoadError", mdl)
    ELSE IF ~loads THEN Raise("ModelLoadError", mdl)
    ELSE Ok("loaded")
----------------------------------------------------------------------------
(* Texts as token sequences *)

Whitespace == {"NL", "SP"}

Words == {"Clinical", "History", "Findings", "Impression", "Recommendations",
          "Note", "CT", "Scan", "Analysis", "Detected", "Abnormalities",
          "Confidence", "Scores", "None", "none", "detected", "format", "now",
          "normal", "abnormal", "findings", "clinical", "history",
          "impression", "recommendations", "note", "ct", "scan", "analysis",
          "abnormalities", "confidence", "scores"}

\* str.lower() and the re.IGNORECASE comparison, token by token
Lower(t) ==
    CASE t = "Clinical" -> "clinical"
      [] t = "History" -> "history"
      [] t = "Findings" -> "findings"
      [] t = "Impression" -> "impression"
      [] t = "Recommendations" -> "recommendations"
      [] t = "Note" -> "note"
      [] t = "CT" -> "ct"
      [] t = "Scan" -> "scan"
      [] t = "Analysis" -> "analysis"
      [] t = "Detected" -> "detected"
      [] t = "Abnormalities" -> "abnormalities"
      [] t = "Confidence" -> "confidence"
      [] t = "Scores" -> "scores"
      [] t = "None" -> "none"
      [] OTHER -> t

LowerSeq(s) == [i \in 1..Len(s) |-> Lower(s[i])]

\* sub occurs in s at position i
OccursAt(s, sub, i) ==
    /\ i >= 1
    /\ i + Len(sub) - 1 <= Len(s)
    /\ \A j \in 1..Len(sub) : s[i + j - 1] = sub[j]

Contains(s, sub) == \E i \in 1..Len(s) : OccursAt(s, sub, i)

FirstOccurrence(s, sub) ==
    IF Contains(s, sub)
    THEN CHOOSE i \in 1..Len(s) :
            OccursAt(s, sub, i) /\ \A j \in 1..(i - 1) : ~OccursAt(s, sub, j)
    ELSE 0

\* str.strip()
RECURSIVE LStrip(_)
LStrip(s) == IF s # <<>> /\ Head(s) \in Whitespace THEN LStrip(Tail(s)) ELSE s

RECURSIVE RStrip(_)
RStrip(s) ==
    IF s # <<>> /\ s[Len(s)] \in Whitespace
    THEN RStrip(SubSeq(s, 1, Len(s) - 1)) ELSE s

Strip(s) == RStrip(LStrip(s))

\* str.split(sep): the pieces between the occurrences of sep
RECURSIVE Split(_, _)
Split(s, sep) ==
    LET i == FirstOccurrence(s, sep)
    IN  IF i = 0 THEN <<s>>
        ELSE <<SubSeq(s, 1, i - 1)>> \o Split(SubSeq(s, i + Len(sep), Len(s)), sep)

\* str.split('\n'): the pieces between consecutive newlines
SplitLines(s) ==
    LET newlines == {i \in 1..Len(s) : s[i] = "NL"}
        \* the position of the k-th newline; 0 and Len(s) + 1 close the text
        at(k) == IF k = 0 THEN 0
                 ELSE IF k > Cardinality(newlines) THEN Len(s) + 1
                 ELSE CHOOSE i \in newlines :
                        Cardinality({j \in newlines : j < i}) = k - 1
    IN  [k \in 1..(Cardinality(newlines) + 1) |->
            SubSeq(s, at(k - 1) + 1, at(k) - 1)]

\* ", ".join(items)
RECURSIVE JoinComma(_)
JoinComma(items) ==
    IF items = <<>> THEN <<>>
    ELSE IF Len(items) = 1 THEN <<Head(items)>>
    ELSE <<Head(items), "COMMA", "SP">> \o JoinComma(Tail(items))

----------------------------------------------------------------------------
(* LLMService *)

SectionNames == [clinical_history |-> <<"Clinical", "SP", "History">>,
                 findings |-> <<"Findings">>,
                 impression |-> <<"Impression">>,
                 recommendations |-> <<"Recommendations">>]

Absent == [present |-> FALSE, text |-> <<>>]

\* re.search(rf"{section_name}:\s*(.*?)(?=\n\w+:|$)", text, DOTALL | IGNORECASE)
\* the heading and its colon start at position i of the lower-cased text
HeadingAt(low, name, i) ==
    OccursAt(low, LowerSeq(name) \o <<"COLON">>, i)

\* the lookahead (?=\n\w+:|$) at position q
SectionEndsAt(text, q) ==
    \/ q = Len(text) + 1
    \/ q = Len(text) /\ text[q] = "NL"
    \/ /\ q + 2 <= Len(text)
       /\ text[q] = "NL"
       /\ text[q + 1] \in Words
       /\ text[q + 2] = "COLON"

_extract_section(text, name) ==
    LET low == LowerSeq(text)
        heads == {i \in 1..Len(text) : HeadingAt(low, name, i)}
    IN
    IF heads = {} THEN Absent
    ELSE LET start == CHOOSE i \in heads : \A j \in heads : i <= j
             afterColon == start + Len(name) + 1
             \* \s* is greedy: it takes every whitespace token that follows
             p == CHOOSE k \in afterColon..(Len(text) + 1) :
                    /\ \A j \in afterColon..(k - 1) : text[j] \in Whitespace
                    /\ k = Len(text) + 1 \/ text[k] \notin Whitespace
             \* (.*?) is lazy: it stops at the first position of the lookahead
             ends == {k \in p..(Len(text) + 1) : SectionEndsAt(text, k)}
             q == CHOOSE k \in ends : \A j \in ends : k <= j
             content == Strip(SubSeq(text, p, q - 1))
         IN  IF content # <<>> THEN [present |-> TRUE, text |-> content]
             ELSE Absent

format_report(raw_text) ==
    [clinical_history |-> _extract_section(raw_text, SectionNames.clinical_history),
     findings |-> _extract_section(raw_text, SectionNames.findings),
     impression |-> _extract_section(raw_text, SectionNames.impression),
     recommendations |-> _extract_section(raw_text, SectionNames.recommendations)]

AbnormalitiesStr(abnormalities) ==
    IF abnormalities # <<>> THEN JoinComma(abnormalities)
    ELSE <<"None", "SP", "detected">>

RECURSIVE ConfidenceStr(_)
ConfidenceStr(keys) ==
    IF keys = <<>> THEN <<>>
    ELSE <<Head(keys), "COLON", "SP", "NUM">>
         \o (IF Len(keys) > 1 THEN <<"COMMA", "SP">> ELSE <<>>)
         \o ConfidenceStr(Tail(keys))

\* the keys of a score map in insertion order ("normal" is always set first)
ScoreKeys(scores) ==
    (IF "normal" \in DOMAIN scores THEN <<"normal">> ELSE <<>>)
    \o (IF "abnormal" \in DOMAIN scores THEN <<"abnormal">> ELSE <<>>)

create_prompt(diagnosis) ==
    <<"TXT_based_on", "NL", "NL",
      "CT", "SP", "Scan", "SP", "Analysis", "COLON", "NL",
      "DASH", "SP", "Detected", "SP", "Abnormalities", "COLON", "SP">>
    \o AbnormalitiesStr(diagnosis.abnormalities)
    \o <<"NL", "DASH", "SP", "Confidence", "SP", "Scores", "COLON", "SP">>
    \o ConfidenceStr(ScoreKeys(diagnosis.confidence_scores))
    \o <<"NL", "DASH", "SP", "Findings", "COLON", "SP", "TXT_json", "NL", "NL",
         "TXT_please_generate", "SP", "format", "COLON", "NL", "NL",
         "Clinical", "SP", "History", "COLON", "NL", "TXT_bracket", "NL", "NL",
         "Findings", "COLON", "NL", "TXT_bracket", "NL", "NL",
         "Impression", "COLON", "NL", "TXT_bracket", "NL", "NL",
         "Recommendations", "COLON", "NL", "TXT_bracket", "NL", "NL",
         "TXT_generate_the_report", "SP", "now", "COLON">>

_generate_mock_report(prompt) ==
    LET key == <<"Abnormalities", "COLON">>
        lines == SplitLines(prompt)
        abn_line == lines[CHOOSE i \in 1..Len(lines) :
                            /\ Contains(lines[i], key)
                            /\ \A j \in 1..(i - 1) : ~Contains(lines[j], key)]
        abnormalities == IF Contains(prompt, key)
                         THEN Strip(Split(abn_line, key)[2])
                         ELSE <<"normal">>
    IN  <<"Clinical", "SP", "History", "COLON", "NL", "TXT_no_history", "NL", "NL",
          "Findings", "COLON", "NL", "TXT_analysis_indicates", "SP">>
        \o LowerSeq(abnormalities)
        \o <<"SP", "TXT_findings_and_rest", "NL", "NL",
             "Impression", "COLON", "NL", "TXT_normal_brain", "NL", "NL",
             "Recommendations", "COLON", "NL", "TXT_routine_follow_up", "NL", "NL",
             "Note", "COLON", "SP", "TXT_this_is_a_mock_report">>

ConnectErrors == {"ConnectError", "ConnectTimeout", "ReadTimeout",
                  "ConnectionRefusedError"}
OtherErrors == {"HTTPStatusError", "WriteTimeout"}
ProbeOutcomes == {"ok", "model_missing"} \cup ConnectErrors \cup OtherErrors
GenerateOutcomes == {"ok"} \cup ConnectErrors \cup OtherErrors

\* outcome of a LLMService method: what it raised or returned, and the
\* fields of the service afterwards; probed / posted tell which requests
\* were sent to the backend
LLMOut(raised, err, text, init, mock, probed, posted) ==
    [raised |-> raised, err |-> err, text |-> text, initialized |-> init,
     use_mock |-> mock, probed |-> probed, posted |-> posted]

initialize_llm(init, mock, probe) ==
    IF probe = "ok" THEN LLMOut(FALSE, "none", <<>>, TRUE, mock, TRUE, FALSE)
    ELSE IF probe \in ConnectErrors
    THEN LLMOut(FALSE, "none", <<>>, FALSE, TRUE, TRUE, FALSE)
    ELSE LLMOut(TRUE, "LLMInitializationError", <<>>, init, mock, TRUE, FALSE)

\* response is the text the backend answers with when the call succeeds
generate_report(init, mock, prompt, probe, gen, response, logOK) ==
    LET doInit == ~init /\ ~mock
        i == IF doInit THEN initialize_llm(init, mock, probe)
             ELSE LLMOut(FALSE, "none", <<>>, init, mock, FALSE, FALSE)
    IN  IF ~logOK
        THEN LLMOut(TRUE, "FileNotFoundError", <<>>, init, mock, FALSE, FALSE)
        ELSE IF i.raised THEN i
        ELSE IF i.use_mock \/ ~i.initialized
        THEN LLMOut(FALSE, "none", _generate_mock_report(prompt),
                    i.initialized, i.use_mock, i.probed, FALSE)
        ELSE IF gen = "ok"
        THEN LLMOut(FALSE, "none", response, i.initialized, i.use_mock,
                    i.probed, TRUE)
        ELSE IF gen \in ConnectErrors
        THEN LLMOut(FALSE, "none", _generate_mock_report(prompt),
                    i.initialized, TRUE, i.probed, TRUE)
        ELSE LLMOut(TRUE, "LLMInitializationError", <<>>, i.initialized,
                    i.use_mock, i.probed, TRUE)
----------------------------------------------------------------------------
(* ReportGenerator._aggregate_diagnoses *)

\* every label kept as often as it was seen
KeepEveryLabel(s, seen) == s

\* list(Counter(all).keys()): each label once, in first-seen order
RECURSIVE UniqueInOrder(_, _)
UniqueInOrder(s, seen) ==
    IF s = <<>> THEN <<>>
    ELSE IF Head(s) \in seen THEN UniqueInOrder(Tail(s), seen)
    ELSE <<Head(s)>> \o UniqueInOrder(Tail(s), seen \cup {Head(s)})

CountIn(s, x) == Cardinality({i \in 1..Len(s) : s[i] = x})

\* each diagnosis overwrites the value kept for its labels
RECURSIVE OverwriteScores(_, _)
OverwriteScores(ds, acc) ==
    IF ds = <<>> THEN acc
    ELSE LET sc == Head(ds).confidence_scores
             next == [k \in DOMAIN acc \cup DOMAIN sc |->
                        IF k \in DOMAIN sc THEN sc[k] ELSE acc[k]]
         IN  OverwriteScores(Tail(ds), next)

\* aggregated_confidence[key] += value, over the diagnoses in order
RECURSIVE SumScores(_, _)
SumScores(ds, acc) ==
    IF ds = <<>> THEN acc
    ELSE LET sc == Head(ds).confidence_scores
             next == [k \in DOMAIN acc \cup DOMAIN sc |->
                        (IF k \in DOMAIN acc THEN acc[k] ELSE 0)
                        + (IF k \in DOMAIN sc THEN sc[k] ELSE 0)]
         IN  SumScores(Tail(ds), next)

\* the number of diagnoses whose score map holds key
ReportersOf(ds, key) ==
    Cardinality({i \in 1..Len(ds) : key \in DOMAIN ds[i].confidence_scores})

\* a divisor that counts only the diagnoses that reported key
ReportersDivisor(ds, key) == ReportersOf(ds, key)

\* the divisor of aggregated_confidence[key] /= num_images
ScoreDivisor(ds, key) == Len(ds)

_aggregate_diagnoses(ds) ==
    LET all_abnormalities == Flatten([i \in 1..Len(ds) |-> ds[i].abnormalities])
        unique_abnormalities == UniqueInOrder(all_abnormalities, {})
        sums == SumScores(ds, <<>>)
    IN  [abnormalities |-> unique_abnormalities,
         confidence_scores |->
            [k \in DOMAIN sums |-> Quot(sums[k], ScoreDivisor(ds, k))],
         findings |->
            [total_images_analyzed |-> Len(ds),
             abnormality_frequency |->
                [l \in Range(unique_abnormalities) |-> CountIn(all_abnormalities, l)],
             per_image_findings |-> ds]]

EmptyDiagnosis ==
    [abnormalities |-> <<>>, confidence_scores |-> <<>>,
     findings |-> [total_images_analyzed |-> 0, abnormality_frequency |-> <<>>,
                   per_image_findings |-> <<>>]]
----------------------------------------------------------------------------
(* ReportGenerator: the per-file task and the entry points *)

\* what a submitted file is: "corrupt" fails a sanity check, parse_dicom_file
\* or extract_pixel_array; "bad_shape" decodes to an array that is not one
\* 2-D slice; "healthy" and "lesion" decode to a 2-D slice
FileKinds == {"healthy", "lesion", "corrupt", "bad_shape"}

\* the pixel array a decodable file yields
ImageOf(kind) ==
    CASE kind = "lesion" -> [shape |-> <<512, 512>>, px |-> <<80, 20>>]
      [] kind = "bad_shape" -> [shape |-> <<3, 512, 512>>, px |-> <<20, 20>>]
      [] OTHER -> [shape |-> <<512, 512>>, px |-> <<20, 20>>]

NoMetadata == [image_index |-> 0]

TaskOut(tensor, metadata, err) ==
    [tensor |-> tensor, metadata |-> metadata, error |-> err]

\* idx is the 1-based position of the file, file_index + 1 in the source
_parse_and_preprocess_file(avail, kind, idx) ==
    IF kind = "corrupt"
    THEN TaskOut(NoneTensor, NoMetadata, "DicomParseError")
    ELSE LET image_tensor == preprocess_image(avail, ImageOf(kind))
         IN  IF image_tensor.raised
             THEN TaskOut(NoneTensor, NoMetadata, image_tensor.err)
             ELSE TaskOut(image_tensor.val, [image_index |-> idx], "none")

\* a task that hands whatever it decoded to preprocess_image
PreprocessEveryFile(kind) == TRUE

\* the task reached the call of preprocess_image
ReachesPreprocess(kind) == kind # "corrupt"

NoResult == [ok |-> FALSE, tensor |-> NoneTensor, metadata |-> NoMetadata]

\* a collector that keeps whatever a task returned
KeepEveryResult(out) ==
    [ok |-> TRUE, tensor |-> out.tensor, metadata |-> out.metadata]

\* the body of the as_completed loop for one future
CollectResult(out) ==
    IF out.error = "none" /\ out.tensor # NoneTensor
    THEN [ok |-> TRUE, tensor |-> out.tensor, metadata |-> out.metadata]
    ELSE NoResult

\* the successes in the order their futures completed
RECURSIVE CompletionOrderSuccesses(_, _, _)
CompletionOrderSuccesses(res, completion, i) ==
    IF i > Len(completion) THEN <<>>
    ELSE (IF res[completion[i]].ok THEN <<res[completion[i]]>> ELSE <<>>)
         \o CompletionOrderSuccesses(res, completion, i + 1)

\* "Reconstruct ordered results": the successes in index order
RECURSIVE OrderedSuccesses(_, _, _)
OrderedSuccesses(res, completion, i) ==
    IF i > Len(res) THEN <<>>
    ELSE (IF res[i].ok THEN <<res[i]>> ELSE <<>>)
         \o OrderedSuccesses(res, completion, i + 1)

\* a request that goes on with whatever list of diagnoses it has
EvidenceNotRequired(ds) == FALSE

\* the test "if not diagnoses" of generate_report_from_dicom_series
NoEvidence(ds) == ds = <<>>

\* an entry point that lets the exception through as it is
PropagateError(e) == e

\* except Exception as e: raise ReportGenerationError(...) from e
WrapSeriesError(e) == "ReportGenerationError"
WrapSingleError(e) == "ReportGenerationError"

NoReport == [clinical_history |-> Absent, findings |-> Absent,
             impression |-> Absent, recommendations |-> Absent]

\* str(n): the decimal text of a count
str(n) == [decimal |-> n]

\* the metadata of the last file that was processed
LastMetadata(metadata) ==
    IF metadata # <<>> THEN metadata[Len(metadata)] ELSE NoMetadata

\* all_metadata[0] if all_metadata else {}
primary_metadata(metadata) ==
    IF metadata # <<>> THEN metadata[1] ELSE NoMetadata

NoReturn ==
    [returned |-> FALSE, report |-> NoReport, diagnosis |-> EmptyDiagnosis,
     dicom_metadata |-> [primary |-> NoMetadata,
                         total_images_processed |-> str(0),
                         total_images_uploaded |-> str(0)],
     image_metadata |-> <<>>]

NoCalls == [preprocess_image |-> 0, run_inference |-> 0,
            run_inference_batch |-> 0, _aggregate_diagnoses |-> 0,
            create_prompt |-> 0, generate_report |-> 0, format_report |-> 0]

\* how the backend and the debug log behave during one composer call; the
\* fields a call never reads are fixed
LLMEnv(probe, gen, response, logOK) ==
    [probe |-> probe, gen |-> gen, response |-> response, logOK |-> logOK]

\* texts the generation backend may answer with
RespFull ==
    <<"Clinical", "SP", "History", "COLON", "NL", "TXT_a", "NL", "NL",
      "Findings", "COLON", "NL", "TXT_b", "NL", "NL",
      "Impression", "COLON", "NL", "TXT_c", "NL", "NL",
      "Recommendations", "COLON", "NL", "TXT_d">>
RespNoRecommendations == SubSeq(RespFull, 1, 18)
RespEmptyFindings ==
    <<"Clinical", "SP", "History", "COLON", "NL", "TXT_a", "NL", "NL",
      "Findings", "COLON", "NL", "NL",
      "Impression", "COLON", "NL", "TXT_c", "NL", "NL",
      "Recommendations", "COLON", "NL", "TXT_d">>
RespHistoryLast ==
    <<"Findings", "COLON", "NL", "TXT_b", "NL", "NL",
      "Impression", "COLON", "NL", "TXT_c", "NL", "NL",
      "Recommendations", "COLON", "NL", "TXT_d", "NL", "NL",
      "Clinical", "SP", "History", "COLON", "NL", "TXT_a">>
RespNoteLine ==
    <<"Clinical", "SP", "History", "COLON", "NL", "TXT_a", "NL", "NL",
      "Findings", "COLON", "NL", "TXT_b", "NL", "Note", "COLON", "SP", "TXT_e",
      "NL", "NL",
      "Impression", "COLON", "NL", "TXT_c", "NL", "NL",
      "Recommendations", "COLON", "NL", "TXT_d">>
LLMResponses == {RespFull, RespNoRecommendations, RespEmptyFindings,
                 RespHistoryLast, RespNoteLine, <<>>}

LLMEnvs ==
    {LLMEnv("ok", "ok", <<>>, FALSE)}
    \cup {LLMEnv(probe, "ok", <<>>, TRUE) : probe \in ProbeOutcomes \ {"ok"}}
    \cup {LLMEnv("ok", gen, <<>>, TRUE) : gen \in GenerateOutcomes \ {"ok"}}
    \cup {LLMEnv("ok", "ok", response, TRUE) : response \in LLMResponses}
----------------------------------------------------------------------------
(* The series request: generate_report_from_dicom_series *)

Bump(c, name) == [c EXCEPT ![name] = @ + 1]

NoLLMIn == [abnormalities |-> <<>>, probe |-> "ok", gen |-> "ok", logOK |-> TRUE]
NoLLMOut == [op |-> "none", raised |-> FALSE, err |-> "none", text |-> <<>>,
             probed |-> FALSE, posted |-> FALSE, report |-> NoReport]

NotCalled == [called |-> FALSE, raised |-> FALSE, err |-> "none", val |-> <<>>]
Called(out) == [called |-> TRUE, raised |-> out.raised, err |-> out.err,
                val |-> out.val]

IdleEngine ==
    /\ image_tensors = <<>>
    /\ single_out = NotCalled
    /\ batch_out = NotCalled

IdleComposer ==
    /\ llm_in = NoLLMIn
    /\ llm_out = NoLLMOut

\* a byte string: its length, what its first bytes are and what stands at
\* offset 128
Bytes(len, head, at128) == [len |-> len, head |-> head, at128 |-> at128]

IdleFront ==
    /\ raw_bytes = Bytes(0, "none", "none")
    /\ parsed = NotCalled
    /\ pixel_array = <<>>
    /\ normalized = NotCalled
    /\ uploads = <<>>
    /\ dicom_bytes_list = <<>>
    /\ http_response = NotCalled

IdleRequest ==
    /\ entry = "none"
    /\ pending = {}
    /\ order = <<>>
    /\ results = <<>>
    /\ preprocessed_data = <<>>
    /\ all_metadata = <<>>
    /\ batch_idx = 0
    /\ diagnoses = <<>>
    /\ aggregated_diagnosis = EmptyDiagnosis
    /\ result = NoReturn
    /\ error = "none"
    /\ cause = "none"
    /\ calls = NoCalls

Init ==
    /\ dicom_files \in SeqsUpTo(FileKinds, MaxFiles)
    /\ batch_size \in 1..MaxBatch
    /\ pc = "received"
    /\ IdleRequest
    /\ MONAI_AVAILABLE \in BOOLEAN
    /\ model \in (IF MONAI_AVAILABLE THEN {"none", "loaded"} ELSE {"none"})
    /\ IdleEngine
    /\ initialized = FALSE
    /\ use_mock = FALSE
    /\ IdleComposer
    /\ IdleFront

\* the request fails: the exception e leaves the try block of the entry point
FailSeries(e) ==
    /\ pc' = "failed"
    /\ cause' = e
    /\ error' = WrapSeriesError(e)
    /\ result' = NoReturn

\* entry: the empty list is refused, otherwise every file is submitted
SubmitSeries ==
    /\ pc = "received"
    /\ entry' = "series"
    /\ IF dicom_files = <<>>
       THEN /\ pc' = "failed"
            /\ cause' = "ReportGenerationError"
            /\ error' = "ReportGenerationError"
            /\ UNCHANGED <<pending, results>>
       ELSE /\ pc' = "decoding"
            /\ pending' = 1..Len(dicom_files)
            /\ results' = [i \in 1..Len(dicom_files) |-> NoResult]
            /\ UNCHANGED <<cause, error>>
    /\ UNCHANGED <<dicom_files, batch_size, order, preprocessed_data,
                   all_metadata, batch_idx, diagnoses, aggregated_diagnosis,
                   result, calls, monaiVars, llmVars, frontVars>>

\* a pool of max_workers threads takes the tasks in submission order
Running(idx) == Cardinality({j \in pending : j < idx}) < MaxWorkers

\* one future completes and the as_completed loop stores its outcome
TaskComplete(idx) ==
    /\ pc = "decoding"
    /\ idx \in pending
    /\ Running(idx)
    /\ LET out == _parse_and_preprocess_file(MONAI_AVAILABLE, dicom_files[idx], idx)
       IN  results' = [results EXCEPT ![idx] = CollectResult(out)]
    /\ pending' = pending \ {idx}
    /\ order' = Append(order, idx)
    /\ calls' = IF ReachesPreprocess(dicom_files[idx])
                THEN Bump(calls, "preprocess_image") ELSE calls
    /\ UNCHANGED <<dicom_files, batch_size, entry, pc, preprocessed_data, all_metadata,
                   batch_idx, diagnoses, aggregated_diagnosis, result, error,
                   cause, monaiVars, llmVars, frontVars>>

\* _process_files_parallel is left: its local variables are gone
LeaveParallel ==
    /\ order' = <<>>
    /\ results' = <<>>
    /\ preprocessed_data' = <<>>
    /\ batch_idx' = 0

\* every future is done: the ordered lists are built; with no success
\* _process_files_parallel returns ([], []) and the entry point raises
FinishParallel ==
    /\ pc = "decoding"
    /\ pending = {}
    /\ LET successes == OrderedSuccesses(results, order, 1)
       IN  IF successes # <<>>
           THEN /\ preprocessed_data' = [i \in 1..Len(successes) |-> successes[i].tensor]
                /\ all_metadata' = [i \in 1..Len(successes) |-> successes[i].metadata]
                /\ pc' = "inference"
                /\ UNCHANGED <<order, results, batch_idx, cause, error, result>>
           ELSE /\ LeaveParallel
                /\ all_metadata' = <<>>
                /\ IF NoEvidence(diagnoses)
                   THEN FailSeries("ReportGenerationError")
                   ELSE /\ pc' = "aggregating"
                        /\ UNCHANGED <<cause, error, result>>
    /\ UNCHANGED <<dicom_files, batch_size, entry, pending, diagnoses,
                   aggregated_diagnosis, calls, monaiVars, llmVars, frontVars>>

\* one iteration of the batch loop
RunBatch ==
    /\ pc = "inference"
    /\ LET batch_end == Min(batch_idx + batch_size, Len(preprocessed_data))
           batch_tensors == SubSeq(preprocessed_data, batch_idx + 1, batch_end)
           batch_diagnoses == run_inference_batch(MONAI_AVAILABLE, model, batch_tensors)
       IN  IF batch_diagnoses.raised
           THEN /\ FailSeries(batch_diagnoses.err)
                /\ LeaveParallel
                /\ diagnoses' = <<>>
                /\ all_metadata' = <<>>
           ELSE /\ diagnoses' = diagnoses \o batch_diagnoses.val
                /\ IF batch_idx + batch_size < Len(preprocessed_data)
                   THEN /\ batch_idx' = batch_idx + batch_size
                        /\ UNCHANGED <<pc, cause, error, result, order, results,
                                       preprocessed_data, all_metadata>>
                   ELSE /\ LeaveParallel
                        /\ UNCHANGED all_metadata
                        /\ IF NoEvidence(diagnoses')
                           THEN FailSeries("ReportGenerationError")
                           ELSE /\ pc' = "aggregating"
                                /\ UNCHANGED <<cause, error, result>>
    /\ calls' = Bump(calls, "run_inference_batch")
    /\ UNCHANGED <<dicom_files, batch_size, entry, pending, aggregated_diagnosis,
                   monaiVars, llmVars, frontVars>>

Aggregate ==
    /\ pc = "aggregating"
    /\ aggregated_diagnosis' = _aggregate_diagnoses(diagnoses)
    /\ calls' = Bump(calls, "_aggregate_diagnoses")
    /\ pc' = "composing"
    /\ UNCHANGED <<dicom_files, batch_size, entry, pending, order, results,
                   preprocessed_data, all_metadata, batch_idx, diagnoses,
                   result, error, cause, monaiVars, llmVars, frontVars>>

\* the outcome of the three composer calls on one diagnosis
ComposeOut(diagnosis, env) ==
    LET prompt == create_prompt(diagnosis)
        g == generate_report(initialized, use_mock, prompt, env.probe, env.gen,
                             env.response, env.logOK)
    IN  [op |-> "compose", raised |-> g.raised, err |-> g.err, text |-> g.text,
         probed |-> g.probed, posted |-> g.posted,
         report |-> IF g.raised THEN NoReport ELSE format_report(g.text),
         initialized |-> g.initialized, use_mock |-> g.use_mock]

ComposeCalls(c, raised) ==
    IF raised THEN Bump(Bump(c, "create_prompt"), "generate_report")
    ELSE Bump(Bump(Bump(c, "create_prompt"), "generate_report"), "format_report")

\* create_prompt, generate_report, format_report and the returned dictionary
Compose(env) ==
    /\ pc = "composing"
    /\ LET c == ComposeOut(aggregated_diagnosis, env)
       IN  /\ initialized' = c.initialized
           /\ use_mock' = c.use_mock
           /\ calls' = ComposeCalls(calls, c.raised)
           /\ IF c.raised
              THEN FailSeries(c.err)
              ELSE /\ pc' = "done"
                   /\ result' =
                        [returned |-> TRUE, report |-> c.report,
                         diagnosis |-> aggregated_diagnosis,
                         dicom_metadata |->
                            [primary |-> primary_metadata(all_metadata),
                             total_images_processed |-> str(Len(diagnoses)),
                             total_images_uploaded |-> str(Len(dicom_files))],
                         image_metadata |-> all_metadata]
                   /\ UNCHANGED <<cause, error>>
    /\ UNCHANGED <<dicom_files, batch_size, entry, pending, order, results,
                   preprocessed_data, all_metadata, batch_idx, diagnoses,
                   aggregated_diagnosis, MONAI_AVAILABLE, model, image_tensors,
                   single_out, batch_out, llm_in, llm_out, frontVars>>
----------------------------------------------------------------------------
(* The single-file request: generate_report_from_dicom *)

\* _process_dicom_to_report up to the diagnosis
SingleDiagnosis(avail, mdl, kind) ==
    IF kind = "corrupt"
    THEN Raise("DicomParseError", _get_mock_diagnosis)
    ELSE LET image_tensor == preprocess_image(avail, ImageOf(kind))
         IN  IF image_tensor.raised
             THEN Raise(image_tensor.err, _get_mock_diagnosis)
             ELSE run_inference(avail, mdl, image_tensor.val)

SingleDicom(env) ==
    /\ pc = "received"
    /\ Len(dicom_files) = 1
    /\ entry' = "single"
    /\ LET kind == dicom_files[1]
           d == SingleDiagnosis(MONAI_AVAILABLE, model, kind)
           c == ComposeOut(d.val, env)
           engineCalls ==
               IF ~ReachesPreprocess(kind) THEN calls
               ELSE IF d.raised /\ d.err = "ValueError"
               THEN Bump(calls, "preprocess_image")
               ELSE Bump(Bump(calls, "preprocess_image"), "run_inference")
       IN  IF d.raised
           THEN /\ pc' = "failed"
                /\ cause' = d.err
                /\ error' = WrapSingleError(d.err)
                /\ calls' = engineCalls
                /\ UNCHANGED <<result, initialized, use_mock>>
           ELSE /\ initialized' = c.initialized
                /\ use_mock' = c.use_mock
                /\ calls' = ComposeCalls(engineCalls, c.raised)
                /\ IF c.raised
                   THEN /\ pc' = "failed"
                        /\ cause' = c.err
                        /\ error' = WrapSingleError(c.err)
                        /\ UNCHANGED result
                   ELSE /\ pc' = "done"
                        /\ result' = [NoReturn EXCEPT !.returned = TRUE,
                                                      !.report = c.report,
                                                      !.diagnosis = d.val]
                        /\ UNCHANGED <<cause, error>>
    /\ UNCHANGED <<dicom_files, batch_size, pending, order, results,
                   preprocessed_data, all_metadata, batch_idx, diagnoses,
                   aggregated_diagnosis, MONAI_AVAILABLE, model, image_tensors,
                   single_out, batch_out, llm_in, llm_out, frontVars>>

Next ==
    \/ SubmitSeries
    \/ \E idx \in 1..MaxFiles : TaskComplete(idx)
    \/ FinishParallel
    \/ RunBatch
    \/ Aggregate
    \/ \E env \in LLMEnvs : Compose(env)
    \/ \E env \in LLMEnvs : SingleDicom(env)

Spec == Init /\ [][Next]_vars
----------------------------------------------------------------------------
(* _aggregate_diagnoses on its own: any list of diagnoses *)

Diag(abnormalities, scores) ==
    [abnormalities |-> abnormalities, confidence_scores |-> scores,
     findings |-> [mock_diagnosis |-> FALSE, max_probability |-> 0,
                   mean_probability |-> 0, output_shape |-> <<>>]]

ExampleA == Diag(<<"normal">>, ("normal" :> 90) @@ ("abnormal" :> 10))
ExampleB == Diag(<<"abnormal">>, ("normal" :> 30) @@ ("abnormal" :> 70))
OnlyNormal == Diag(<<>>, ("normal" :> 90))
OnlyAbnormal == Diag(<<"abnormal">>, ("abnormal" :> 70))
BothLabels == Diag(<<"abnormal", "normal">>, ("normal" :> 50) @@ ("abnormal" :> 50))

DiagPool == {ExampleA, ExampleB, OnlyNormal, OnlyAbnormal, BothLabels,
             _get_mock_diagnosis}

IdlePipeline ==
    /\ dicom_files = <<>>
    /\ batch_size = 1
    /\ entry = "none"
    /\ pending = {}
    /\ order = <<>>
    /\ results = <<>>
    /\ preprocessed_data = <<>>
    /\ all_metadata = <<>>
    /\ batch_idx = 0
    /\ result = NoReturn
    /\ error = "none"
    /\ cause = "none"
    /\ calls = NoCalls

InitAgg ==
    /\ pc = "aggregate"
    /\ diagnoses \in SeqsUpTo(DiagPool, MaxDiag)
    /\ aggregated_diagnosis = EmptyDiagnosis
    /\ IdlePipeline
    /\ MONAI_AVAILABLE = TRUE
    /\ model = "none"
    /\ IdleEngine
    /\ initialized = FALSE
    /\ use_mock = FALSE
    /\ IdleComposer
    /\ IdleFront

AggregateCall ==
    /\ pc = "aggregate"
    /\ aggregated_diagnosis' = _aggregate_diagnoses(diagnoses)
    /\ pc' = "aggregated"
    /\ UNCHANGED <<dicom_files, batch_size, entry, pending, order, results,
                   preprocessed_data, all_metadata, batch_idx, diagnoses,
                   result, error, cause, calls, monaiVars, llmVars, frontVars>>

NextAgg == AggregateCall

SpecAgg == InitAgg /\ [][NextAgg]_vars

----------------------------------------------------------------------------
(* MonaiService on its own *)

ImagePool == {[shape |-> <<512, 512>>, px |-> <<20, 20>>],
              [shape |-> <<512, 512>>, px |-> <<80, 20>>],
              [shape |-> <<1, 512, 512>>, px |-> <<50, 50>>],
              [shape |-> <<3, 512, 512>>, px |-> <<20, 20>>]}

InitMonai ==
    /\ pc = "engine"
    /\ MONAI_AVAILABLE \in BOOLEAN
    /\ model = "none"
    /\ IdleEngine
    /\ diagnoses = <<>>
    /\ aggregated_diagnosis = EmptyDiagnosis
    /\ IdlePipeline
    /\ initialized = FALSE
    /\ use_mock = FALSE
    /\ IdleComposer
    /\ IdleFront

\* load_model(path): loads tells whether the weights load
LoadModel(loads) ==
    /\ pc = "engine"
    /\ model' = load_model(MONAI_AVAILABLE, model, loads).val
    /\ single_out' = NotCalled
    /\ batch_out' = NotCalled
    /\ UNCHANGED <<pipeVars, MONAI_AVAILABLE, image_tensors, llmVars, frontVars>>

\* preprocess_image(image): the caller keeps the tensor it returns
PreprocessImage(image) ==
    /\ pc = "engine"
    /\ Len(image_tensors) < MaxTensors
    /\ LET t == preprocess_image(MONAI_AVAILABLE, image)
       IN  image_tensors' = IF t.raised THEN image_tensors
                            ELSE Append(image_tensors, t.val)
    /\ single_out' = NotCalled
    /\ batch_out' = NotCalled
    /\ UNCHANGED <<pipeVars, MONAI_AVAILABLE, model, llmVars, frontVars>>

\* run_inference on each kept tensor in turn
RunInferenceEach ==
    /\ pc = "engine"
    /\ ~single_out.called
    /\ single_out' = Called(Ok([i \in 1..Len(image_tensors) |->
                        run_inference(MONAI_AVAILABLE, model, image_tensors[i])]))
    /\ UNCHANGED <<pipeVars, MONAI_AVAILABLE, model, image_tensors, batch_out,
                   llmVars, frontVars>>

\* run_inference_batch on the list of kept tensors
RunInferenceBatch ==
    /\ pc = "engine"
    /\ ~batch_out.called
    /\ batch_out' = Called(run_inference_batch(MONAI_AVAILABLE, model, image_tensors))
    /\ UNCHANGED <<pipeVars, MONAI_AVAILABLE, model, image_tensors, single_out,
                   llmVars, frontVars>>

NextMonai ==
    \/ \E loads \in BOOLEAN : LoadModel(loads)
    \/ \E image \in ImagePool : PreprocessImage(image)
    \/ RunInferenceEach
    \/ RunInferenceBatch

SpecMonai == InitMonai /\ [][NextMonai]_vars

----------------------------------------------------------------------------
(* LLMService on its own *)

LLMDiagPool ==
    {[_get_mock_diagnosis EXCEPT !.abnormalities = abn] :
        abn \in SeqsUpTo(Labels, MaxLabels)}

InitLLM ==
    /\ pc = "composer"
    /\ initialized = FALSE
    /\ use_mock = FALSE
    /\ IdleComposer
    /\ diagnoses = <<>>
    /\ aggregated_diagnosis = EmptyDiagnosis
    /\ IdlePipeline
    /\ MONAI_AVAILABLE = TRUE
    /\ model = "none"
    /\ IdleEngine
    /\ IdleFront

\* initialize_llm()
InitializeLLM(probe) ==
    /\ pc = "composer"
    /\ llm_out.op = "none"
    /\ LET i == initialize_llm(initialized, use_mock, probe)
       IN  /\ initialized' = i.initialized
           /\ use_mock' = i.use_mock
           /\ llm_out' = [op |-> "initialize_llm", raised |-> i.raised,
                          err |-> i.err, text |-> <<>>, probed |-> TRUE,
                          posted |-> FALSE, report |-> NoReport]
    /\ llm_in' = [abnormalities |-> <<>>, probe |-> probe, gen |-> "ok",
                  logOK |-> TRUE]
    /\ UNCHANGED <<pipeVars, monaiVars, frontVars>>

\* format_report(generate_report(create_prompt(diagnosis)))
ComposeReport(diagnosis, env) ==
    /\ pc = "composer"
    /\ llm_out.op = "none"
    /\ LET c == ComposeOut(diagnosis, env)
       IN  /\ initialized' = c.initialized
           /\ use_mock' = c.use_mock
           /\ llm_out' = [op |-> "compose", raised |-> c.raised, err |-> c.err,
                          text |-> c.text, probed |-> c.probed,
                          posted |-> c.posted, report |-> c.report]
    /\ llm_in' = [abnormalities |-> diagnosis.abnormalities, probe |-> env.probe,
                  gen |-> env.gen, logOK |-> env.logOK]
    /\ UNCHANGED <<pipeVars, monaiVars, frontVars>>

\* the caller has taken what the last call returned or raised
TakeResult ==
    /\ pc = "composer"
    /\ llm_out.op # "none"
    /\ llm_in' = NoLLMIn
    /\ llm_out' = NoLLMOut
    /\ UNCHANGED <<pipeVars, monaiVars, initialized, use_mock, frontVars>>

NextLLM ==
    \/ \E probe \in ProbeOutcomes : InitializeLLM(probe)
    \/ TakeResult
    \/ \E diagnosis \in LLMDiagPool, env \in LLMEnvs : ComposeReport(diagnosis, env)

SpecLLM == InitLLM /\ [][NextLLM]_vars

----------------------------------------------------------------------------
(* Properties of the series and single-file requests (Spec) *)

\* the task of file idx raises while it decodes or preprocesses the file
FileRaises(idx) ==
    _parse_and_preprocess_file(MONAI_AVAILABLE, dicom_files[idx], idx).error # "none"

\* the as_completed loop keeps nothing of file idx
FileFails(idx) ==
    ~CollectResult(_parse_and_preprocess_file(MONAI_AVAILABLE, dicom_files[idx], idx)).ok

Indexes(metadata) == [i \in 1..Len(metadata) |-> metadata[i].image_index]

StrictlyIncreasing(s) == \A i \in 1..(Len(s) - 1) : s[i] < s[i + 1]

ComposerCalls ==
    calls.create_prompt + calls.generate_report + calls.format_report

\* C1: per-file failure isolation.  Every file whose decode or preprocess
\* does not raise is processed to a success once its task has completed,
\* whatever its siblings did, and the series request stops at the
\* no-evidence check only when the task of every submitted file raised.
C1_FailureIsolation ==
    entry = "series" =>
        /\ \A idx \in 1..Len(dicom_files) :
              (pc = "decoding" /\ idx \notin pending /\ ~FileRaises(idx))
                  => results[idx].ok
        /\ (pc = "failed" /\ cause = "ReportGenerationError"
                /\ calls.run_inference_batch = 0)
              => \A idx \in 1..Len(dicom_files) : FileRaises(idx)

\* C2: order preservation.  For every completion order the collected
\* (tensor, metadata) pairs, and the image_metadata list that is returned,
\* are ordered by submission index: they are exactly the successful files,
\* each tensor next to its own metadata; [A, B, C] with B failing gives
\* [meta(A), meta(C)].
C2_OrderPreservation ==
    /\ StrictlyIncreasing(Indexes(all_metadata))
    /\ StrictlyIncreasing(Indexes(result.image_metadata))
    /\ pc = "inference" =>
          /\ Range(Indexes(all_metadata))
                = {idx \in 1..Len(dicom_files) : results[idx].ok}
          /\ Len(preprocessed_data) = Len(all_metadata)
          /\ \A i \in 1..Len(all_metadata) :
                preprocessed_data[i] = results[all_metadata[i].image_index].tensor
    /\ (/\ pc \in {"inference", "aggregating", "composing", "done"}
        /\ entry = "series"
        /\ Len(dicom_files) = 3
        /\ ~FileFails(1) /\ FileFails(2) /\ ~FileFails(3))
          => Indexes(all_metadata) = <<1, 3>>
    /\ (result.returned /\ entry = "series")
          => result.image_metadata = all_metadata

\* C, the last file, completed before A, the first one, and B failed
C2_Witness ==
    /\ pc = "inference"
    /\ Len(dicom_files) = 3
    /\ dicom_files[2] = "corrupt"
    /\ order = <<2, 3, 1>>
    /\ Indexes(all_metadata) = <<1, 3>>

\* C3: no-evidence failure.  When the list is empty or no submitted file is
\* processed to a success, the series request raises the explicit error and
\* returns nothing: no batch inference, no aggregation, no create_prompt,
\* generate_report or format_report call is ever made.
C3_NoEvidenceFailure ==
    (entry = "series" /\ \A idx \in 1..Len(dicom_files) : FileFails(idx)) =>
        /\ calls.run_inference_batch = 0
        /\ calls.run_inference = 0
        /\ calls._aggregate_diagnoses = 0
        /\ ComposerCalls = 0
        /\ ~result.returned
        /\ pc \in {"decoding", "failed"}
        /\ pc = "failed" =>
              /\ error = "ReportGenerationError"
              /\ cause = "ReportGenerationError"

\* two files were submitted, both reached a worker and both failed
C3_Witness ==
    /\ entry = "series"
    /\ pc = "failed"
    /\ Len(dicom_files) = 2
    /\ MONAI_AVAILABLE
    /\ dicom_files[1] = "corrupt"
    /\ dicom_files[2] = "bad_shape"
    /\ calls.preprocess_image = 1
    /\ error = "ReportGenerationError"

\* C4: fatal stage failures.  An exception raised by batch inference,
\* aggregation or report composition fails the whole request: the entry
\* point raises ReportGenerationError and returns nothing.  The single-file
\* entry point does the same for a failure in any stage, and no other
\* exception type leaves either entry point.
C4_FatalStageFailures ==
    /\ error \in {"none", "ReportGenerationError"}
    /\ cause # "none" => pc = "failed"
    /\ pc = "failed" => error = "ReportGenerationError" /\ ~result.returned
    /\ result.returned => pc = "done" /\ cause = "none" /\ error = "none"

\* the generation backend answered the availability probe with an HTTP
\* error after the series was decoded, diagnosed and aggregated
C4_Witness ==
    /\ entry = "series"
    /\ pc = "failed"
    /\ cause = "LLMInitializationError"
    /\ error = "ReportGenerationError"
    /\ calls._aggregate_diagnoses = 1
    /\ calls.run_inference_batch >= 1

----------------------------------------------------------------------------
(* Properties of LLMService (SpecLLM) *)

\* the diagnosis the last composer call was made with
ComposedDiagnosis ==
    [_get_mock_diagnosis EXCEPT !.abnormalities = llm_in.abnormalities]

\* the last call reached the backend and the backend failed it
ProbeFailed == llm_out.probed /\ llm_in.probe \in ConnectErrors \cup OtherErrors
GenerateFailed == llm_out.posted /\ llm_in.gen \in ConnectErrors \cup OtherErrors

MockMarker == <<"TXT_this_is_a_mock_report">>

\* C5: generation fallback.  generate_report never raises because the
\* availability probe or the generate call ended in an error: it returns
\* the templated mock report built from the prompt.
C5_GenerationFallback ==
    (llm_out.op = "compose" /\ llm_in.logOK /\ (ProbeFailed \/ GenerateFailed)) =>
        /\ ~llm_out.raised
        /\ llm_out.text = _generate_mock_report(create_prompt(ComposedDiagnosis))

\* C6: mock fallback end to end.  With the backend unreachable the report
\* format_report(generate_report(create_prompt(d))) has a findings field
\* that is present and holds d's abnormality list, and some field of the
\* report the caller receives holds the marker of a mock report.
C6_MockFallbackEndToEnd ==
    (llm_out.op = "compose" /\ llm_in.logOK /\ llm_out.probed
        /\ llm_in.probe \in ConnectErrors) =>
        /\ ~llm_out.raised
        /\ llm_out.report.findings.present
        /\ Contains(llm_out.report.findings.text,
                    LowerSeq(AbnormalitiesStr(llm_in.abnormalities)))
        /\ \E field \in DOMAIN llm_out.report :
              Contains(llm_out.report[field].text, MockMarker)

----------------------------------------------------------------------------
(* Properties of MonaiService (SpecMonai) *)

NoModelLoaded == ~MONAI_AVAILABLE \/ model = "none"

\* ["normal"], normal 0.85, abnormal 0.15, tagged as a mock
IsFixedBenign(d) ==
    /\ d.abnormalities = <<"normal">>
    /\ DOMAIN d.confidence_scores = {"normal", "abnormal"}
    /\ d.confidence_scores["normal"] = 85
    /\ d.confidence_scores["abnormal"] = 15
    /\ d.findings.mock_diagnosis = TRUE

C8_BatchSingleEquivalence ==
    (single_out.called /\ batch_out.called) =>
        /\ ~batch_out.raised
        /\ Len(batch_out.val) = Len(image_tensors)
        /\ \A i \in 1..Len(batch_out.val) :
              /\ ~single_out.val[i].raised
              /\ batch_out.val[i].abnormalities = single_out.val[i].val.abnormalities
              /\ batch_out.val[i].confidence_scores
                    = single_out.val[i].val.confidence_scores
              /\ batch_out.val[i].findings = single_out.val[i].val.findings

----------------------------------------------------------------------------
(* Properties of _aggregate_diagnoses (SpecAgg) *)

\* the sum of the values the diagnoses give to key
RECURSIVE LabelSum(_, _)
LabelSum(ds, key) ==
    IF ds = <<>> THEN 0
    ELSE (IF key \in DOMAIN Head(ds).confidence_scores
          THEN Head(ds).confidence_scores[key] ELSE 0)
         + LabelSum(Tail(ds), key)

ReportedLabels(ds) == UNION {DOMAIN ds[i].confidence_scores : i \in 1..Len(ds)}

\* C9: aggregated confidence.  For every label of any input's score map the
\* aggregate is the sum of the label's values over all inputs divided by
\* the number N of inputs; {normal: 0.9, abnormal: 0.1} and
\* {normal: 0.3, abnormal: 0.7} give {normal: 0.6, abnormal: 0.4}.
C9_AggregatedConfidence ==
    pc = "aggregated" =>
        /\ DOMAIN aggregated_diagnosis.confidence_scores = ReportedLabels(diagnoses)
        /\ \A key \in ReportedLabels(diagnoses) :
              RatEq(aggregated_diagnosis.confidence_scores[key],
                    LabelSum(diagnoses, key), Len(diagnoses))
        /\ diagnoses = <<ExampleA, ExampleB>> =>
              /\ aggregated_diagnosis.confidence_scores["normal"]
                    = [num |-> 60, den |-> 1]
              /\ aggregated_diagnosis.confidence_scores["abnormal"]
                    = [num |-> 40, den |-> 1]

\* the two images of the example were aggregated
C9_Witness ==
    /\ pc = "aggregated"
    /\ diagnoses = <<ExampleA, ExampleB>>
    /\ aggregated_diagnosis.confidence_scores["normal"] = [num |-> 60, den |-> 1]

\* C10 as stated: the aggregate score of a label is the arithmetic mean of
\* the label's score over the images that reported it; the images that did
\* not report it are not counted in the denominator.
C10_MeanOverReporters ==
    pc = "aggregated" =>
        \A key \in ReportedLabels(diagnoses) :
            RatEq(aggregated_diagnosis.confidence_scores[key],
                  LabelSum(diagnoses, key), ReportersOf(diagnoses, key))

\* C10, with every image in the denominator: with r of the N images reporting a label, the aggregate
\* score is the reporters' mean scaled by r / N, so every image counts in
\* the denominator: the aggregate never exceeds the reporters' mean and
\* equals it only when every image reported the label or the label's
\* scores are all zero.
C10_MeanOverAllImages ==
    pc = "aggregated" =>
        \A key \in ReportedLabels(diagnoses) :
            LET score == aggregated_diagnosis.confidence_scores[key]
                r == ReportersOf(diagnoses, key)
                mean == Quot(LabelSum(diagnoses, key), r)
            IN  /\ score.num * Len(diagnoses) * mean.den = mean.num * r * score.den
                /\ score.num * mean.den <= mean.num * score.den
                /\ (score = mean) <=>
                      (r = Len(diagnoses) \/ LabelSum(diagnoses, key) = 0)

\* one image of three gave no score to a label the others reported
C10_Witness ==
    /\ pc = "aggregated"
    /\ Len(diagnoses) = 3
    /\ ReportersOf(diagnoses, "abnormal") = 2
    /\ aggregated_diagnosis.confidence_scores["abnormal"]
          # Quot(LabelSum(diagnoses, "abnormal"), 2)

\* the labels of all inputs, one after the other
RECURSIVE LabelsSeen(_)
LabelsSeen(ds) ==
    IF ds = <<>> THEN <<>> ELSE Head(ds).abnormalities \o LabelsSeen(Tail(ds))

\* where label l is seen first
FirstSeen(seen, l) ==
    CHOOSE i \in 1..Len(seen) : seen[i] = l /\ \A j \in 1..(i - 1) : seen[j] # l

\* C11: aggregated abnormalities.  The aggregate's abnormality list holds
\* every label of every input exactly once, in first-seen order;
\* abnormality_frequency gives each of them its number of occurrences over
\* the inputs, total_images_analyzed is N and per_image_findings has one
\* entry per input, in input order.
C11_AggregatedAbnormalities ==
    pc = "aggregated" =>
        LET seen == LabelsSeen(diagnoses)
            abn == aggregated_diagnosis.abnormalities
            found == aggregated_diagnosis.findings
        IN  /\ Range(abn) = Range(seen)
            /\ \A i, j \in 1..Len(abn) : i < j =>
                  /\ abn[i] # abn[j]
                  /\ FirstSeen(seen, abn[i]) < FirstSeen(seen, abn[j])
            /\ DOMAIN found.abnormality_frequency = Range(seen)
            /\ \A l \in Range(seen) :
                  found.abnormality_frequency[l]
                      = Cardinality({i \in 1..Len(seen) : seen[i] = l})
            /\ found.total_images_analyzed = Len(diagnoses)
            /\ Len(found.per_image_findings) = Len(diagnoses)
            /\ \A i \in 1..Len(diagnoses) :
                  /\ found.per_image_findings[i].abnormalities
                        = diagnoses[i].abnormalities
                  /\ found.per_image_findings[i].confidence_scores
                        = diagnoses[i].confidence_scores
                  /\ found.per_image_findings[i].findings = diagnoses[i].findings

\* three images, both labels seen twice, "abnormal" first
C11_Witness ==
    /\ pc = "aggregated"
    /\ diagnoses = <<ExampleB, BothLabels, ExampleA>>
    /\ aggregated_diagnosis.abnormalities = <<"abnormal", "normal">>
    /\ aggregated_diagnosis.findings.abnormality_frequency["normal"] = 2

----------------------------------------------------------------------------
(* Further properties of the series and single-file requests (Spec) *)

\* the submitted files that were processed to a success
Processed == {idx \in 1..Len(dicom_files) : ~FileFails(idx)}

\* C12: result bookkeeping.  On every successful return of the series
\* request dicom_metadata comes from the successfully processed file with
\* the lowest submission index, total_images_processed is the number of
\* successfully processed files, total_images_uploaded the number of
\* submitted files, and 1 <= processed <= uploaded.
C12_ResultBookkeeping ==
    (result.returned /\ entry = "series") =>
        /\ Processed # {}
        /\ result.dicom_metadata.primary.image_index \in Processed
        /\ \A idx \in Processed : result.dicom_metadata.primary.image_index <= idx
        /\ result.dicom_metadata.total_images_processed = str(Cardinality(Processed))
        /\ result.dicom_metadata.total_images_uploaded = str(Len(dicom_files))
        /\ 1 <= Cardinality(Processed)
        /\ Cardinality(Processed) <= Len(dicom_files)

\* the first of three files failed, the report was returned
C12_Witness ==
    /\ result.returned
    /\ entry = "series"
    /\ Len(dicom_files) = 3
    /\ dicom_files[1] = "corrupt"
    /\ result.dicom_metadata.primary.image_index = 2
    /\ result.dicom_metadata.total_images_processed = str(2)
    /\ result.dicom_metadata.total_images_uploaded = str(3)

\* C13: complete report or error.  Every successful return of either
\* entry point carries a report in which all four sections are present: a
\* generated text that lacks a section never reaches the caller as a
\* report with absent fields.
C13_CompleteReportOrError ==
    result.returned =>
        \A field \in DOMAIN result.report : result.report[field].present

----------------------------------------------------------------------------
(* Further properties of LLMService (SpecLLM) *)

\* no heading of the section in the text
HeadingMissing(text, name) ==
    \A i \in 1..Len(text) : ~HeadingAt(LowerSeq(text), name, i)

\* a line of the text starts with a heading at position k
NextHeadingAt(text, k) ==
    /\ k >= 2 /\ k + 1 <= Len(text)
    /\ text[k - 1] = "NL"
    /\ text[k] \in Words
    /\ text[k + 1] = "COLON"

\* the first heading of the section is followed by whitespace only, up to
\* the next heading or the end of the text
SectionEmpty(text, name) ==
    \E i \in 1..Len(text) :
        /\ HeadingAt(LowerSeq(text), name, i)
        /\ \A j \in 1..(i - 1) : ~HeadingAt(LowerSeq(text), name, j)
        /\ \E k \in (i + Len(name) + 1)..(Len(text) + 1) :
              /\ \A j \in (i + Len(name) + 1)..(k - 1) : text[j] \in Whitespace
              /\ k = Len(text) + 1 \/ NextHeadingAt(text, k)

\* C14: absent sections.  A section whose heading is missing from the raw
\* text, or whose heading is followed by no content before the next
\* heading, gives an absent field of the report: never an empty text and
\* never the text of another section.
C14_AbsentSections ==
    (llm_out.op = "compose" /\ ~llm_out.raised) =>
        \A field \in DOMAIN SectionNames :
            (\/ HeadingMissing(llm_out.text, SectionNames[field])
             \/ SectionEmpty(llm_out.text, SectionNames[field]))
                => llm_out.report[field] = Absent

----------------------------------------------------------------------------
(* DicomParserService.parse_dicom_file                                     *)
(*                                                                         *)
(* A byte string is [len, head, at128]: its length, what it begins with    *)
(* ("brace" is '{', "bracket" is '[', "DICM" the four signature bytes) and *)
(* what bytes 128..131 are.  The header parser pydicom.dcmread is an       *)
(* input: whether the strict and the forced reading raise, and what the    *)
(* dataset they return carries.                                            *)

SignatureEnd == 132
LargeFile == 10000

BytesPool ==
    {b \in {Bytes(len, head, at128) :
                len \in {0, 16, SignatureEnd - 1, SignatureEnd, LargeFile,
                         LargeFile + 1, 2 * LargeFile},
                head \in {"none", "brace", "bracket", "DICM", "zero", "other"},
                at128 \in {"none", "DICM", "zero", "other"}} :
        /\ (b.head = "none") <=> (b.len = 0)
        /\ (b.at128 = "none") <=> (b.len < SignatureEnd)}

startswith(dicom_bytes, prefix) == dicom_bytes.head = prefix

has_dicm_signature(dicom_bytes) ==
    dicom_bytes.at128 = "DICM" \/ dicom_bytes.head = "DICM"

\* the gate applied to every input that can hold a signature
SignatureGateEveryLength(dicom_bytes) ==
    /\ dicom_bytes.len >= SignatureEnd
    /\ ~has_dicm_signature(dicom_bytes)

\* the input is rejected before any header parsing
SignatureGate(dicom_bytes) ==
    /\ dicom_bytes.len >= SignatureEnd
    /\ dicom_bytes.len > LargeFile
    /\ ~has_dicm_signature(dicom_bytes)

\* what pydicom.dcmread returns: a FileDataset always has the attribute
\* file_meta; StudyInstanceUID is there when the bytes hold the element
Dataset(study) == [file_meta |-> TRUE, StudyInstanceUID |-> study]

\* the behaviours of the header parser on the given bytes: the strict
\* reading raises unless 'DICM' stands at offset 128, and no reading finds
\* an element in an empty input
ParseEnvs(dicom_bytes) ==
    {e \in [strict : {"ok", "raises"}, forced : {"ok", "raises"},
            study : BOOLEAN, extract : {"ok", "raises"}] :
        /\ dicom_bytes.at128 # "DICM" => e.strict = "raises"
        /\ dicom_bytes.len = 0 => ~e.study}

ParseRaised(err, step, reads) ==
    [called |-> TRUE, raised |-> TRUE, err |-> err, val |-> <<>>,
     step |-> step, dcmread |-> reads]

DicomData(dicom_file, dicom_bytes) ==
    [study_id |-> dicom_file.StudyInstanceUID,
     metadata |-> [raw_bytes |-> dicom_bytes]]

ParseReturned(data, reads) ==
    [called |-> TRUE, raised |-> FALSE, err |-> "none", val |-> data,
     step |-> "return", dcmread |-> reads]

\* the body of the try block of parse_dicom_file
ParseBody(dicom_bytes, env) ==
    IF startswith(dicom_bytes, "brace") \/ startswith(dicom_bytes, "bracket")
    THEN ParseRaised("DicomParseError", "json", 0)
    ELSE IF SignatureGate(dicom_bytes)
    THEN ParseRaised("DicomParseError", "missing_signature", 0)
    ELSE IF env.strict = "raises" /\ env.forced = "raises"
    THEN ParseRaised("DicomParseError", "header", 2)
    ELSE
        LET reads == IF env.strict = "raises" THEN 2 ELSE 1
            dicom_file == Dataset(env.study)
        IN  IF dicom_file.file_meta /\ ~dicom_file.StudyInstanceUID
            THEN ParseRaised("DicomParseError", "incomplete", reads)
            ELSE IF env.extract = "raises"
            THEN ParseRaised("ValueError", "metadata", reads)
            ELSE ParseReturned(DicomData(dicom_file, dicom_bytes), reads)

\* the exception leaves the decoder as it was raised
PropagateParseError(out) == out

\* except Exception as e: raise DicomParseError(...) from e
WrapParseError(out) ==
    IF out.raised THEN [out EXCEPT !.err = "DicomParseError"] ELSE out

parse_dicom_file(dicom_bytes, env) == WrapParseError(ParseBody(dicom_bytes, env))

----------------------------------------------------------------------------
(* DicomParserService.normalize_image                                      *)
(*                                                                         *)
(* An image is [dtype, px]: the element type of the array and its pixels   *)
(* in row-major order, each an exact fraction [num, den].  The result of   *)
(* the arithmetic is stored as float32, modelled as the nearest multiple   *)
(* of 1 / FloatSteps; an int16 array is subtracted in 16 bits, as numpy    *)
(* does for an array and a scalar of that type.                            *)

Int16Bits == 16

\* the fraction n / d, d # 0, reduced and with a positive denominator
Rat(n, d) ==
    LET sign == IF d < 0 THEN -1 ELSE 1
        g == Gcd(IF n < 0 THEN -n ELSE n, sign * d)
    IN  [num |-> sign * (n \div g), den |-> sign * (d \div g)]

Whole(n) == Rat(n, 1)

RatLess(p, q) == p.num * q.den < q.num * p.den

RatSub(p, q) == Rat(p.num * q.den - q.num * p.den, p.den * q.den)

RatDiv(p, q) == Rat(p.num * q.den, p.den * q.num)

\* astype(np.float32): the nearest representable value
Float32(q) == Rat((2 * q.num * FloatSteps + q.den) \div (2 * q.den), FloatSteps)

\* two's-complement wrap of an int16 result
WrapInt16(n) ==
    LET half == 2 ^ (Int16Bits - 1)
    IN  ((n + half) % (2 * half)) - half

np_min(px) == CHOOSE x \in Range(px) : \A y \in Range(px) : ~RatLess(y, x)

np_max(px) == CHOOSE x \in Range(px) : \A y \in Range(px) : ~RatLess(x, y)

\* a - b at the element type of the array
Subtract(dtype, a, b) ==
    IF dtype = "int16" THEN Whole(WrapInt16(a.num - b.num)) ELSE RatSub(a, b)

zeros_like(image) == [image EXCEPT !.px = [i \in DOMAIN image.px |-> Whole(0)]]

normalize_image(image) ==
    IF Len(image.px) = 0 THEN image
    ELSE LET min_val == np_min(image.px)
             max_val == np_max(image.px)
         IN  IF max_val = min_val THEN zeros_like(image)
             ELSE [dtype |-> "float32",
                   px |-> [i \in DOMAIN image.px |->
                             Float32(RatDiv(Subtract(image.dtype, image.px[i], min_val),
                                            Subtract(image.dtype, max_val, min_val)))]]

\* the arrays that normalize_image is given: float32 arrays of stored pixel
\* values, as extract_pixel_array returns them, and int16 arrays, the
\* stored type of CT pixel data
Images ==
    {[dtype |-> "float32", px |-> [i \in DOMAIN px |-> Whole(px[i])]] :
        px \in SeqsUpTo((-MaxPixel)..MaxPixel, MaxPixels)}
    \cup
    {[dtype |-> "int16", px |-> [i \in DOMAIN px |-> Whole(px[i])]] :
        px \in SeqsUpTo(((-MaxPixel)..MaxPixel) \cup {-HighPixel, HighPixel},
                        MaxPixels)}

IsConstant(image) == \A i, j \in DOMAIN image.px : image.px[i] = image.px[j]

----------------------------------------------------------------------------
(* DicomParserService on its own: the decoder and the normalizer *)

\* nothing has been called; position tells which service is exercised
InitService(position) ==
    /\ pc = position
    /\ diagnoses = <<>>
    /\ aggregated_diagnosis = EmptyDiagnosis
    /\ IdlePipeline
    /\ MONAI_AVAILABLE = TRUE
    /\ model = "none"
    /\ IdleEngine
    /\ initialized = FALSE
    /\ use_mock = FALSE
    /\ IdleComposer
    /\ IdleFront

\* parse_dicom_file(dicom_bytes), the header parser behaving as env says
ParseDicomFile(dicom_bytes, env) ==
    /\ pc = "decoder"
    /\ raw_bytes' = dicom_bytes
    /\ parsed' = parse_dicom_file(dicom_bytes, env) @@ [env |-> env]
    /\ pc' = "decoded"
    /\ UNCHANGED <<dicom_files, batch_size, entry, pending, order, results,
                   preprocessed_data, all_metadata, batch_idx, diagnoses,
                   aggregated_diagnosis, result, error, cause, calls,
                   monaiVars, llmVars, pixel_array, normalized, uploads,
                   dicom_bytes_list, http_response>>

NextDecoder ==
    \E dicom_bytes \in BytesPool :
        \E env \in ParseEnvs(dicom_bytes) : ParseDicomFile(dicom_bytes, env)

SpecDecoder == InitService("decoder") /\ [][NextDecoder]_vars

\* normalize_image(image), and normalize_image of what it returned
NormalizeImage(image) ==
    /\ pc = "normalize"
    /\ pixel_array' = image
    /\ normalized' = [called |-> TRUE,
                      once |-> normalize_image(image),
                      twice |-> normalize_image(normalize_image(image))]
    /\ pc' = "normalized"
    /\ UNCHANGED <<dicom_files, batch_size, entry, pending, order, results,
                   preprocessed_data, all_metadata, batch_idx, diagnoses,
                   aggregated_diagnosis, result, error, cause, calls,
                   monaiVars, llmVars, raw_bytes, parsed, uploads,
                   dicom_bytes_list, http_response>>

NextNormalize == \E image \in Images : NormalizeImage(image)

SpecNormalize == InitService("normalize") /\ [][NextNormalize]_vars

----------------------------------------------------------------------------
(* Properties of parse_dicom_file (SpecDecoder) *)

Unsigned(b) == b.at128 # "DICM" /\ b.head # "DICM"

LooksLikeJson(b) == b.head \in {"brace", "bracket"}

\* C15: decoder signature gate.  Every input longer than 10 000 bytes with
\* no 'DICM' at offset 128 or at offset 0 raises DicomParseError and returns
\* nothing; an unsigned input of 132 to 10 000 bytes is not rejected by the
\* gate and, unless it starts like JSON, reaches the header parser.
C15_SignatureGate ==
    parsed.called =>
        /\ (raw_bytes.len > LargeFile /\ Unsigned(raw_bytes)) =>
              /\ parsed.raised
              /\ parsed.err = "DicomParseError"
              /\ parsed.val = <<>>
              /\ parsed.dcmread = 0
        /\ (/\ raw_bytes.len >= SignatureEnd
            /\ raw_bytes.len <= LargeFile
            /\ Unsigned(raw_bytes)) =>
              /\ parsed.step # "missing_signature"
              /\ ~LooksLikeJson(raw_bytes) => parsed.dcmread >= 1

\* 20 000 zero bytes were rejected
C15_Witness ==
    /\ parsed.called
    /\ raw_bytes = Bytes(2 * LargeFile, "zero", "zero")
    /\ parsed.raised
    /\ parsed.step = "missing_signature"

\* C16: decoder error type.  parse_dicom_file returns a DicomData that
\* retains the raw bytes or raises DicomParseError and nothing else; it
\* raises for an empty input, for an input beginning with '{' or '[', for a
\* header that fails the strict and the forced reading, and for a parsed
\* object without a study-instance identifier.
C16_DecoderErrorType ==
    parsed.called =>
        /\ parsed.raised => parsed.err = "DicomParseError" /\ parsed.val = <<>>
        /\ ~parsed.raised => parsed.val.metadata.raw_bytes = raw_bytes
        /\ raw_bytes.len = 0 => parsed.raised
        /\ LooksLikeJson(raw_bytes) => parsed.raised
        /\ (parsed.env.strict = "raises" /\ parsed.env.forced = "raises")
              => parsed.raised
        /\ ~parsed.env.study => parsed.raised

\* an error of another type was raised while the metadata was extracted and
\* left the decoder as DicomParseError
C16_Witness ==
    /\ parsed.called
    /\ parsed.raised
    /\ parsed.step = "metadata"
    /\ parsed.err = "DicomParseError"

----------------------------------------------------------------------------
(* Properties of normalize_image (SpecNormalize) *)

\* C20: normalization idempotence.  For every image that is not constant,
\* normalizing the normalized image gives the normalized image again.
C20_NormalizationIdempotence ==
    (normalized.called /\ ~IsConstant(pixel_array)) =>
        normalized.twice = normalized.once

----------------------------------------------------------------------------
(* Further properties of MonaiService (SpecMonai) *)

\* the result came out of the network, not out of the mock
RealInference(d) == ~d.findings.mock_diagnosis

\* the abnormal-class probabilities of the pixels of the i-th kept tensor
AbnormalProbabilities(i) == image_tensors[i].data[1]

OneLabel(d, i) ==
    /\ d.abnormalities \in {<<"normal">>, <<"abnormal">>}
    /\ d.abnormalities = <<"abnormal">> => MaxSeq(AbnormalProbabilities(i)) > 50

\* the probabilities of a batch of all kept tensors, [N, 2, 256, 256]
BatchProbabilities ==
    [shape |-> <<Len(image_tensors), 2, 256, 256>>,
     data |-> [i \in 1..Len(image_tensors) |-> AbnormalProbabilities(i)]]

----------------------------------------------------------------------------
(* The upload route POST /inference/from-dicom (routes.py)                 *)
(*                                                                         *)
(* An upload is [filename, bytes, corrupt, members, listing]: the          *)
(* extension of its name, its content, and for a ZIP upload whether        *)
(* zipfile refuses it, the files it extracts to, and the order in which    *)
(* the scan of the temporary directory lists them (0 is the uploaded       *)
(* archive itself, which the route writes into that directory).            *)

looks_like_dicom(b) ==
    IF b.len < SignatureEnd THEN FALSE
    ELSE b.at128 = "DICM" \/ b.head = "DICM"

FilePool == {Bytes(SignatureEnd, "zero", "DICM"), Bytes(16, "other", "none")}

UploadPool ==
    LET ArchiveBytes == {Bytes(LargeFile, "other", "other"),
                         Bytes(LargeFile, "other", "DICM")}
        Listings(k) == {l \in [1..(k + 1) -> 0..k] :
                            \A i, j \in 1..(k + 1) : l[i] = l[j] => i = j}
    IN  {[filename |-> "dcm", bytes |-> b, corrupt |-> FALSE,
          members |-> <<>>, listing |-> <<>>] : b \in FilePool}
        \cup
        {[filename |-> "zip", bytes |-> b, corrupt |-> TRUE,
          members |-> <<>>, listing |-> <<0>>] : b \in ArchiveBytes}
        \cup
        UNION {{[filename |-> "zip", bytes |-> b, corrupt |-> FALSE,
                 members |-> m, listing |-> l] :
                    b \in ArchiveBytes, l \in Listings(Len(m))} :
               m \in SeqsUpTo(FilePool, MaxMembers)}

\* the files below the temporary directory, in the order of the scan
collect_all_files_recursively(upload) ==
    [i \in 1..Len(upload.listing) |->
        IF upload.listing[i] = 0 THEN upload.bytes
        ELSE upload.members[upload.listing[i]]]

\* what one upload adds to dicom_bytes_list, or the exception it raises
CandidatesOf(upload) ==
    IF upload.filename = "zip"
    THEN IF upload.corrupt THEN Raise("BadZipFile", <<>>)
         ELSE Ok(SelectSeq(collect_all_files_recursively(upload), looks_like_dicom))
    ELSE IF looks_like_dicom(upload.bytes) THEN Ok(<<upload.bytes>>)
    ELSE Ok(<<>>)

\* the loop over the uploads: it stops at the first exception
RECURSIVE ReadUploads(_, _)
ReadUploads(files, acc) ==
    IF files = <<>> THEN Ok(acc)
    ELSE LET c == CandidatesOf(Head(files))
         IN  IF c.raised THEN Raise(c.err, acc)
             ELSE ReadUploads(Tail(files), acc \o c.val)

\* the route handler: logOK tells whether the debug log can be opened,
\* generates whether the report generator returns for the candidates
inference_from_dicom(files, logOK, generates) ==
    LET Answer(status, stage, called, list) ==
            [called |-> TRUE, status |-> status, stage |-> stage,
             generator |-> called, dicom_bytes_list |-> list]
        read == ReadUploads(files, <<>>)
        called == IF Len(read.val) = 1 THEN "single" ELSE "series"
    IN  IF ~logOK THEN Answer(500, "log", "none", <<>>)
        ELSE IF files = <<>> THEN Answer(400, "no_files", "none", <<>>)
        ELSE IF read.raised THEN Answer(500, "upload", "none", read.val)
        ELSE IF read.val = <<>> \/ ~generates
        THEN Answer(500, "inference", called, read.val)
        ELSE Answer(200, "response", called, read.val)

UploadRequest(files, logOK, generates) ==
    /\ pc = "route"
    /\ uploads' = files
    /\ http_response' = inference_from_dicom(files, logOK, generates)
                            @@ [logOK |-> logOK, generates |-> generates]
    /\ dicom_bytes_list' = inference_from_dicom(files, logOK, generates).dicom_bytes_list
    /\ pc' = "answered"
    /\ UNCHANGED <<dicom_files, batch_size, entry, pending, order, results,
                   preprocessed_data, all_metadata, batch_idx, diagnoses,
                   aggregated_diagnosis, result, error, cause, calls,
                   monaiVars, llmVars, raw_bytes, parsed, pixel_array,
                   normalized>>

NextUpload ==
    \E files \in SeqsUpTo(UploadPool, MaxUploads) :
        \E logOK \in BOOLEAN, generates \in BOOLEAN :
            UploadRequest(files, logOK, generates)

SpecUpload == InitService("route") /\ [][NextUpload]_vars

----------------------------------------------------------------------------
(* Properties of the upload route (SpecUpload) *)

\* the upload holds at least one file that passes the sniff test
Usable(upload) ==
    IF upload.filename = "zip"
    THEN ~upload.corrupt /\ \E i \in 1..Len(upload.members) :
                                looks_like_dicom(upload.members[i])
    ELSE looks_like_dicom(upload.bytes)

HasCorruptArchive == \E i \in 1..Len(uploads) : uploads[i].corrupt

\* C17: corrupt archive tolerance.  A corrupt ZIP upload counts as an input
\* with no candidate files: when the log is writable, some other upload of
\* the request is usable and the report generator returns, the request is
\* answered with a report.
C17_CorruptArchiveTolerance ==
    (/\ http_response.called
     /\ http_response.logOK
     /\ http_response.generates
     /\ HasCorruptArchive
     /\ \E i \in 1..Len(uploads) : Usable(uploads[i]))
        => http_response.status = 200

\* the member files of the upload that pass the sniff test, as a bag
SniffedMembers(upload) ==
    [b \in {upload.members[i] : i \in {i \in 1..Len(upload.members) :
                                        looks_like_dicom(upload.members[i])}} |->
        Cardinality({i \in 1..Len(upload.members) : upload.members[i] = b})]

ListAsBag(list) ==
    [b \in Range(list) |-> Cardinality({i \in 1..Len(list) : list[i] = b})]

\* C18: archive expansion.  The candidates obtained from a ZIP upload are
\* exactly its member files that pass the sniff test; nothing else is added
\* and no member that fails the test is an error.
C18_ArchiveExpansion ==
    (/\ http_response.called
     /\ http_response.logOK
     /\ Len(uploads) = 1
     /\ uploads[1].filename = "zip"
     /\ ~uploads[1].corrupt)
        => /\ http_response.stage # "upload"
           /\ ListAsBag(dicom_bytes_list) = SniffedMembers(uploads[1])

----------------------------------------------------------------------------
(* Further properties of normalize_image (SpecNormalize) *)

InUnitInterval(v) == ~RatLess(v, Whole(0)) /\ ~RatLess(Whole(1), v)

\* the positions of the smallest and of the largest pixel of the image
Smallest(image) ==
    {i \in DOMAIN image.px : \A j \in DOMAIN image.px : ~RatLess(image.px[j], image.px[i])}

Largest(image) ==
    {i \in DOMAIN image.px : \A j \in DOMAIN image.px : ~RatLess(image.px[i], image.px[j])}

\* C21: normalization is total and range-bounded.  For every image the
\* result has the shape of the image and all its values lie in [0, 1]; an
\* image that is not constant has its minimum at 0 and its maximum at 1, a
\* constant image gives all zeros, an empty image is returned unchanged.
C21_NormalizationRange ==
    normalized.called =>
        /\ Len(normalized.once.px) = Len(pixel_array.px)
        /\ \A i \in DOMAIN normalized.once.px : InUnitInterval(normalized.once.px[i])
        /\ ~IsConstant(pixel_array) =>
              /\ \A i \in Smallest(pixel_array) : normalized.once.px[i] = Whole(0)
              /\ \A i \in Largest(pixel_array) : normalized.once.px[i] = Whole(1)
        /\ (IsConstant(pixel_array) /\ Len(pixel_array.px) > 0) =>
              \A i \in DOMAIN normalized.once.px : normalized.once.px[i] = Whole(0)
        /\ Len(pixel_array.px) = 0 => normalized.once = pixel_array

----------------------------------------------------------------------------
(* Properties of inference without a model (SpecMonai) *)

\* C22: inference without a model is an error.  On a service on which no
\* model has been loaded, run_inference raises ModelLoadError for every
\* tensor and run_inference_batch raises ModelLoadError.
C22_InferenceWithoutModelRaises ==
    model = "none" =>
        /\ single_out.called =>
              \A i \in 1..Len(single_out.val) :
                  /\ single_out.val[i].raised
                  /\ single_out.val[i].err = "ModelLoadError"
        /\ batch_out.called =>
              /\ batch_out.raised
              /\ batch_out.err = "ModelLoadError"

\* C28: batch tensor shape.  For tensors as returned by preprocess_image,
\* the batch that run_inference_batch hands to the model has rank 4 and
\* shape [N, 1, 256, 256], and every tensor is a valid model input alone.
C28_BatchTensorShape ==
    (/\ MONAI_AVAILABLE
     /\ model = "loaded"
     /\ image_tensors # <<>>
     /\ batch_out.called) =>
        LET batch == torch_stack(image_tensors)
        IN  /\ ~batch.raised
            /\ batch.val.shape = <<Len(image_tensors), 1, 256, 256>>
            /\ ~model_forward(batch.val).raised
            /\ \A i \in 1..Len(image_tensors) :
                  /\ image_tensors[i].shape = <<1, 1, 256, 256>>
                  /\ ~model_forward(image_tensors[i]).raised

----------------------------------------------------------------------------
(* Stage ordering and batches of the series request (Spec) *)

Started(c, name) == c'[name] > c[name]

Decodable == {idx \in 1..Len(dicom_files) : dicom_files[idx] # "corrupt"}

\* what holds of the stages in every state of a series request
StageInvariant ==
    entry = "series" =>
        /\ calls["preprocess_image"] <= Cardinality(Decodable \ pending)
        /\ calls["run_inference_batch"] > 0 => pending = {}
        /\ calls["_aggregate_diagnoses"] <= 1
        /\ calls["create_prompt"] <= 1
        /\ calls["generate_report"] <= 1
        /\ calls["format_report"] <= 1
        /\ calls["create_prompt"] > 0 => calls["_aggregate_diagnoses"] = 1
        /\ calls["generate_report"] > 0 => calls["create_prompt"] = 1
        /\ calls["format_report"] > 0 => calls["generate_report"] = 1
        /\ pc = "done" => result.returned /\ error = "none"
        /\ pc = "failed" => result = NoReturn /\ error # "none"
        /\ result.returned => pc = "done"

\* what holds of every step of a series request
StageStep ==
    entry = "series" =>
        /\ Started(calls, "run_inference_batch") =>
              /\ pending = {}
              /\ Len(order) = Len(dicom_files)
              /\ calls["_aggregate_diagnoses"] = 0
        /\ Started(calls, "_aggregate_diagnoses") =>
              /\ calls["run_inference_batch"] >= 1
              /\ Len(diagnoses) = Len(all_metadata)
              /\ ~Started(calls, "run_inference_batch")
        /\ pc \in {"done", "failed"} => UNCHANGED <<pc, result, error>>

\* C23: stage ordering of one series request.  No batch call starts before
\* every task has finished; preprocess_image is called only for a file that
\* decoded; aggregation starts only after the last batch returned; each
\* composer operation runs at most once and only after aggregation; the
\* request ends either done with a result or failed without one.
C23_StageOrdering == [](StageInvariant) /\ [][StageStep]_vars

\* a request with a corrupt file went through two batches and ended done
C23_Witness ==
    /\ entry = "series"
    /\ pc = "done"
    /\ calls["run_inference_batch"] = 2
    /\ calls["preprocess_image"] = 2
    /\ Len(dicom_files) = 3
    /\ calls["format_report"] = 1

\* the number of batches that n tensors make at the configured batch size
BatchCount(n) == (n + batch_size - 1) \div batch_size

\* C24: batch partitioning.  With n >= 1 ordered successes the batch loop
\* calls run_inference_batch one call at a time, the k-th call starting at
\* tensor k * batch_size and bringing the diagnoses of the next 1 to
\* batch_size tensors, in order; when the request has ended there were
\* exactly ceil(n / batch_size) calls and one diagnosis per success.
C24_BatchPartitioning ==
    (entry = "series" /\ Cardinality(Processed) >= 1) =>
        /\ pc = "inference" =>
              /\ batch_idx = calls["run_inference_batch"] * batch_size
              /\ batch_idx < Len(preprocessed_data)
              /\ Len(diagnoses) = batch_idx
              /\ \A j \in 1..Len(diagnoses) :
                    diagnoses[j] = run_inference(MONAI_AVAILABLE, model,
                                                 preprocessed_data[j]).val
        /\ pc \in {"aggregating", "composing", "done", "failed"} =>
              /\ calls["run_inference_batch"] = BatchCount(Cardinality(Processed))
              /\ Len(diagnoses) = Cardinality(Processed)

\* the file decodes to one 2-D slice
IsSlice(kind) == kind \in {"healthy", "lesion"}

\* C26: the mock-mode engine stays usable inside the pipeline.  Without a
\* loaded model, and also without the runtime, every file that decodes is
\* counted as processed once its task has completed, and a series of
\* decodable files reaches aggregation with one mock diagnosis per file.
C26_MockModePipeline ==
    (entry = "series" /\ NoModelLoaded) =>
        /\ \A idx \in 1..Len(dicom_files) :
              (pc = "decoding" /\ idx \notin pending /\ IsSlice(dicom_files[idx]))
                  => results[idx].ok
        /\ (/\ pc \in {"done", "failed"}
            /\ dicom_files # <<>>
            /\ \A idx \in 1..Len(dicom_files) : IsSlice(dicom_files[idx]))
              => /\ calls["_aggregate_diagnoses"] = 1
                 /\ Len(diagnoses) = Len(dicom_files)
                 /\ \A j \in 1..Len(diagnoses) : IsFixedBenign(diagnoses[j])

\* what the task of file idx returns
TaskOf(idx) == _parse_and_preprocess_file(MONAI_AVAILABLE, dicom_files[idx], idx)

\* the files whose task returned a tensor and no error
Successes ==
    {idx \in 1..Len(dicom_files) :
        TaskOf(idx).error = "none" /\ TaskOf(idx).tensor # NoneTensor}

\* C27: file accounting.  Every submitted index gets exactly one outcome,
\* success or failure; the diagnoses, the metadata entries and the
\* successes are equally many; the i-th diagnosis was computed from the
\* file of the i-th metadata entry.
C27_FileAccounting ==
    entry = "series" =>
        /\ pc \in {"decoding", "inference"} =>
              /\ Len(order) = Cardinality(Range(order))
              /\ Range(order) = (1..Len(dicom_files)) \ pending
              /\ \A idx \in Range(order) : results[idx].ok <=> idx \in Successes
        /\ pc = "inference" =>
              /\ pending = {}
              /\ Len(preprocessed_data) = Cardinality(Successes)
              /\ Len(all_metadata) = Cardinality(Successes)
        /\ pc \in {"aggregating", "composing", "done"} =>
              /\ Len(diagnoses) = Cardinality(Successes)
              /\ Len(all_metadata) = Cardinality(Successes)
              /\ \A i \in 1..Len(diagnoses) :
                    /\ all_metadata[i].image_index \in Successes
                    /\ diagnoses[i]
                          = run_inference(MONAI_AVAILABLE, model,
                                TaskOf(all_metadata[i].image_index).tensor).val
        /\ (pc = "failed" /\ calls["run_inference_batch"] = 0) =>
              /\ Successes = {}
              /\ diagnoses = <<>>
              /\ all_metadata = <<>>

\* of three files the second failed; two diagnoses and two metadata entries
\* came back
C27_Witness ==
    /\ entry = "series"
    /\ pc = "aggregating"
    /\ Len(dicom_files) = 3
    /\ Successes = {1, 3}
    /\ Len(diagnoses) = 2
    /\ Indexes(all_metadata) = <<1, 3>>

----------------------------------------------------------------------------
(* Section boundaries and the mock mode of LLMService (SpecLLM) *)

\* one of the four headings, with its colon, starts at position i
AnyHeadingAt(text, i) ==
    \E field \in DOMAIN SectionNames : HeadingAt(LowerSeq(text), SectionNames[field], i)

HeadingStarts(text, name) ==
    {i \in 1..Len(text) : HeadingAt(LowerSeq(text), name, i)}

\* the text between the colon of the heading and the next of the four
\* headings, or the end of the text
SectionBetween(text, name) ==
    LET start == CHOOSE i \in HeadingStarts(text, name) : TRUE
        after == start + Len(name) + 1
        stops == {k \in after..(Len(text) + 1) :
                    k = Len(text) + 1 \/ AnyHeadingAt(text, k)}
        stop == CHOOSE k \in stops : \A j \in stops : k <= j
    IN  Strip(SubSeq(text, after, stop - 1))

\* each of the four headings occurs once and is followed by content
FourSections(text) ==
    \A field \in DOMAIN SectionNames :
        /\ Cardinality(HeadingStarts(text, SectionNames[field])) = 1
        /\ SectionBetween(text, SectionNames[field]) # <<>>

\* C25: section boundaries.  For a raw text that holds the four headings in
\* any order, each with content, every field of the report is exactly the
\* content between its own heading and the next of the four headings or
\* the end of the text.
C25_SectionBoundaries ==
    (llm_out.op = "compose" /\ ~llm_out.raised /\ FourSections(llm_out.text)) =>
        \A field \in DOMAIN SectionNames :
            /\ llm_out.report[field].present
            /\ llm_out.report[field].text
                  = SectionBetween(llm_out.text, SectionNames[field])

\* a composer call starts in this step
ComposerCalled == llm_out.op = "none" /\ llm_out'.op = "compose"

\* C29: the mock mode of LLMService is absorbing.  Once _use_mock is True
\* no operation clears it, and every later generate_report returns the mock
\* report without sending a probe or a generate request, also after a
\* later successful initialize_llm.
C29_MockModeAbsorbing ==
    [][/\ use_mock => use_mock'
       /\ (use_mock /\ ComposerCalled) =>
             /\ ~llm_out'.raised
             /\ llm_out'.text
                   = _generate_mock_report(create_prompt(
                         [_get_mock_diagnosis
                            EXCEPT !.abnormalities = llm_in'.abnormalities]))
             /\ ~llm_out'.probed
             /\ ~llm_out'.posted]_vars

\* C30: debug logging is best-effort.  When the debug log cannot be opened
\* or written, the composer calls return what they return with a writable
\* log and raise nothing because of the log.
C30_BestEffortLogging ==
    [][(ComposerCalled /\ ~llm_in'.logOK) =>
          \E response \in LLMResponses :
             LET prompt == create_prompt(
                     [_get_mock_diagnosis
                        EXCEPT !.abnormalities = llm_in'.abnormalities])
                 otherwise == generate_report(initialized, use_mock, prompt,
                                  llm_in'.probe, llm_in'.gen, response, TRUE)
             IN  /\ llm_out'.raised = otherwise.raised
                 /\ llm_out'.err = otherwise.err
                 /\ llm_out'.text = otherwise.text
                 /\ llm_out'.report
                       = (IF otherwise.raised THEN NoReport
                          ELSE format_report(otherwise.text))
                 /\ initialized' = otherwise.initialized
                 /\ use_mock' = otherwise.use_mock]_vars

\* the mock mode with a debug log that can be written
MockModeWithLog ==
    [][/\ use_mock => use_mock'
       /\ (use_mock /\ ComposerCalled /\ llm_in'.logOK) =>
             /\ ~llm_out'.raised
             /\ llm_out'.text
                   = _generate_mock_report(create_prompt(
                         [_get_mock_diagnosis
                            EXCEPT !.abnormalities = llm_in'.abnormalities]))
             /\ ~llm_out'.probed
             /\ ~llm_out'.posted]_vars

============================================================================
